---- MODULE Spec2Model ----
(***************************************************************************)
(* gdenv, src/godot.rs: GodotVersion.  A version string is normalized      *)
(* (normalize_version_string), parsed by the strict semver parser          *)
(* (semver::Version::parse) and paired with the is_dotnet flag; the value  *)
(* is rendered back as display string, installation name, archive name    *)
(* and executable path, the last two depending on the host platform.       *)
(*                                                                         *)
(* A Rust string is modelled as a sequence of one-character strings, so    *)
(* that trimming, splitting, searching and replacing are computed on the   *)
(* characters as the code computes them.                                   *)
(***************************************************************************)
EXTENDS Integers, Sequences, FiniteSets, TLC

----------------------------------------------------------------------------
(* Characters.                                                             *)

DigitChars == <<"0", "1", "2", "3", "4", "5", "6", "7", "8", "9">>

\* char::is_numeric / u8::is_ascii_digit on the characters of the model
IsDigit(c) == \E i \in DOMAIN DigitChars : DigitChars[i] = c

\* char::is_whitespace, as used by str::trim
IsWhitespace(c) == c = " "

LetterChars ==
    <<"a", "b", "c", "d", "e", "h", "l", "n", "o", "p", "r", "s", "t", "x">>

\* The characters of the version strings of the model, in the order of their
\* byte values; str's Ord compares bytes.
ByteOrder == <<" ", "+", "-", ".">> \o DigitChars \o LetterChars

ByteRank(c) == CHOOSE i \in DOMAIN ByteOrder : ByteOrder[i] = c

\* The characters semver allows inside a prerelease or build identifier:
\* letters, digits and '-'
IsIdentChar(c) ==
    c = "-" \/ IsDigit(c) \/ \E i \in DOMAIN LetterChars : LetterChars[i] = c

AllDigits(s) == \A i \in DOMAIN s : IsDigit(s[i])

----------------------------------------------------------------------------
(* Library string functions the code calls.                                *)

\* Ordering::Less, Equal, Greater
Less == "Less"
Equal == "Equal"
Greater == "Greater"

\* Ordering::then_with
ThenWith(o, p) == IF o /= Equal THEN o ELSE p

\* Ord::cmp on usize
CmpNat(m, n) == IF m < n THEN Less ELSE IF m > n THEN Greater ELSE Equal

\* Ord::cmp on str: bytewise lexicographic, a proper prefix is smaller
RECURSIVE CmpStr(_, _)
CmpStr(s, t) ==
    IF s = <<>> THEN (IF t = <<>> THEN Equal ELSE Less)
    ELSE IF t = <<>> THEN Greater
    ELSE IF s[1] = t[1] THEN CmpStr(Tail(s), Tail(t))
    ELSE CmpNat(ByteRank(s[1]), ByteRank(t[1]))

\* pattern p occurs in s at position i
OccursAt(s, p, i) ==
    /\ i >= 1
    /\ i + Len(p) - 1 <= Len(s)
    /\ SubSeq(s, i, i + Len(p) - 1) = p

\* str::contains
Contains(s, p) == \E i \in 1..(Len(s) - Len(p) + 1) : OccursAt(s, p, i)

\* the first position of p in s at or after i; 0 when there is none
RECURSIVE FindFrom(_, _, _)
FindFrom(s, p, i) ==
    IF i + Len(p) - 1 > Len(s) THEN 0
    ELSE IF OccursAt(s, p, i) THEN i
    ELSE FindFrom(s, p, i + 1)

\* str::find: the first position of p in s; 0 stands for None
Find(s, p) == FindFrom(s, p, 1)

\* str::ends_with
EndsWith(s, p) == OccursAt(s, p, Len(s) - Len(p) + 1)

\* str::strip_suffix(p).unwrap_or(s)
StripSuffixOr(s, p) == IF EndsWith(s, p) THEN SubSeq(s, 1, Len(s) - Len(p)) ELSE s

\* str::trim
Trim(s) ==
    LET keep == {i \in DOMAIN s : ~IsWhitespace(s[i])}
    IN  IF keep = {} THEN <<>>
        ELSE SubSeq(s, CHOOSE i \in keep : \A j \in keep : i <= j,
                       CHOOSE i \in keep : \A j \in keep : i >= j)

\* str::split('.').collect(): the parts between the dots, one part for a
\* string without dots (the empty string included)
RECURSIVE SplitDot(_)
SplitDot(s) ==
    LET d == Find(s, <<".">>)
    IN  IF d = 0 THEN <<s>>
        ELSE <<SubSeq(s, 1, d - 1)>> \o SplitDot(SubSeq(s, d + 1, Len(s)))

\* str::split_once(p): the text before and after the first p
SplitOnce(s, p) ==
    LET i == Find(s, p)
    IN  <<SubSeq(s, 1, i - 1), SubSeq(s, i + Len(p), Len(s))>>

\* str::replace(from, to): every non-overlapping match, left to right
RECURSIVE Replace(_, _, _)
Replace(s, from, to) ==
    LET i == Find(s, from)
    IN  IF i = 0 THEN s
        ELSE SubSeq(s, 1, i - 1) \o to
             \o Replace(SubSeq(s, i + Len(from), Len(s)), from, to)

\* str::trim_start_matches('0')
RECURSIVE TrimLeadingZeros(_)
TrimLeadingZeros(s) ==
    IF s /= <<>> /\ s[1] = "0" THEN TrimLeadingZeros(Tail(s)) ELSE s

\* the decimal digits of u32::MAX and of u64::MAX
U32MaxDigits == <<"4", "2", "9", "4", "9", "6", "7", "2", "9", "5">>
U64MaxDigits ==
    <<"1", "8", "4", "4", "6", "7", "4", "4", "0", "7",
      "3", "7", "0", "9", "5", "5", "1", "6", "1", "5">>

\* digits d (no sign) denote a number no larger than the one max denotes
FitsIn(d, max) ==
    LET v == TrimLeadingZeros(d)
    IN  Len(v) < Len(max) \/ (Len(v) = Len(max) /\ CmpStr(v, max) /= Greater)

\* str::parse::<u32>(): an optional '+', then one or more digits whose value
\* fits 32 bits.  None stands for Err.
None == <<"None">>
ParseU32(s) ==
    LET d == IF s /= <<>> /\ s[1] = "+" THEN Tail(s) ELSE s
    IN  IF d /= <<>> /\ AllDigits(d) /\ FitsIn(d, U32MaxDigits)
        THEN LET v == TrimLeadingZeros(d) IN IF v = <<>> THEN <<"0">> ELSE v
        ELSE None

----------------------------------------------------------------------------
(* The literals of the code.                                               *)

DashStable == <<"-", "s", "t", "a", "b", "l", "e">>
TagBeta == <<"b", "e", "t", "a">>
TagRc == <<"r", "c">>
TagAlpha == <<"a", "l", "p", "h", "a">>

\* the order in which normalize_version_string applies its three checks
CodeOrder == <<TagBeta, TagRc, TagAlpha>>

----------------------------------------------------------------------------
(* semver::Version, the strict parser and its Display and Ord.             *)

Ok(x) == [ok |-> TRUE, val |-> x]
Err == [ok |-> FALSE]

\* the longest prefix of s whose characters all satisfy the test
RECURSIVE PrefixLen(_, _)
PrefixLen(s, identifier) ==
    IF s = <<>> THEN 0
    ELSE IF (IF identifier THEN IsIdentChar(s[1]) \/ s[1] = "." ELSE IsDigit(s[1]))
         THEN 1 + PrefixLen(Tail(s), identifier)
         ELSE 0

\* semver's numeric_identifier: the digits at the start of the text, without
\* a leading zero, of a value that fits 64 bits; the rest of the text
NumericIdentifier(text) ==
    LET n == PrefixLen(text, FALSE)
        d == SubSeq(text, 1, n)
    IN  IF n = 0 \/ (n > 1 /\ d[1] = "0") \/ ~FitsIn(d, U64MaxDigits)
        THEN Err
        ELSE Ok([num |-> d, rest |-> SubSeq(text, n + 1, Len(text))])

\* semver's dot: the text after a '.'
Dot(text) ==
    IF text /= <<>> /\ text[1] = "." THEN Ok(Tail(text)) ELSE Err

\* semver's identifier: the dot-separated segments at the start of the text,
\* none empty and, in a prerelease, no all-digit segment with a leading zero
Identifier(text, isPre) ==
    LET n == PrefixLen(text, TRUE)
        id == SubSeq(text, 1, n)
        segs == IF n = 0 THEN <<>> ELSE SplitDot(id)
    IN  IF \/ \E i \in DOMAIN segs : segs[i] = <<>>
           \/ isPre /\ \E i \in DOMAIN segs :
                  Len(segs[i]) > 1 /\ AllDigits(segs[i]) /\ segs[i][1] = "0"
        THEN Err
        ELSE Ok([id |-> id, rest |-> SubSeq(text, n + 1, Len(text))])

\* the part of Version::from_str after major.minor.patch: "-" prerelease
\* and "+" build metadata, each optional, neither empty, nothing after them
ParseTail(major, minor, patch, text) ==
    LET hasPre == text /= <<>> /\ text[1] = "-"
        pre == IF hasPre THEN Identifier(Tail(text), TRUE)
               ELSE Ok([id |-> <<>>, rest |-> text])
    IN  IF ~pre.ok \/ (hasPre /\ pre.val.id = <<>>) THEN Err
        ELSE LET t2 == pre.val.rest
                 hasBuild == t2 /= <<>> /\ t2[1] = "+"
                 build == IF hasBuild THEN Identifier(Tail(t2), FALSE)
                          ELSE Ok([id |-> <<>>, rest |-> t2])
             IN  IF ~build.ok \/ (hasBuild /\ build.val.id = <<>>) THEN Err
                 ELSE IF build.val.rest /= <<>> THEN Err
                 ELSE Ok([major |-> major, minor |-> minor, patch |-> patch,
                          pre |-> pre.val.id, build |-> build.val.id])

\* semver::Version::parse
VersionParse(text) ==
    LET major == NumericIdentifier(text)
    IN  IF ~major.ok THEN Err
        ELSE LET d1 == Dot(major.val.rest)
             IN  IF ~d1.ok THEN Err
        ELSE LET minor == NumericIdentifier(d1.val)
             IN  IF ~minor.ok THEN Err
        ELSE LET d2 == Dot(minor.val.rest)
             IN  IF ~d2.ok THEN Err
        ELSE LET patch == NumericIdentifier(d2.val)
             IN  IF ~patch.ok THEN Err
        ELSE ParseTail(major.val.num, minor.val.num, patch.val.num,
                       patch.val.rest)

\* Display for semver::Version
VersionToString(v) ==
    v.major \o <<".">> \o v.minor \o <<".">> \o v.patch
    \o (IF v.pre = <<>> THEN <<>> ELSE <<"-">> \o v.pre)
    \o (IF v.build = <<>> THEN <<>> ELSE <<"+">> \o v.build)

\* Ord for u64, on the digits (no leading zeros) of the two numbers
CmpNum(a, b) == ThenWith(CmpNat(Len(a), Len(b)), CmpStr(a, b))

\* one step of the identifier loop in Ord for Prerelease and BuildMetadata
CmpIdent(l, r, isPre) ==
    IF AllDigits(l) /\ AllDigits(r)
    THEN IF isPre THEN ThenWith(CmpNat(Len(l), Len(r)), CmpStr(l, r))
         ELSE ThenWith(CmpNum(TrimLeadingZeros(l), TrimLeadingZeros(r)),
                       CmpNat(Len(l), Len(r)))
    ELSE IF AllDigits(l) THEN Less
    ELSE IF AllDigits(r) THEN Greater
    ELSE CmpStr(l, r)

RECURSIVE CmpIdents(_, _, _)
CmpIdents(ls, rs, isPre) ==
    IF ls = <<>> THEN (IF rs = <<>> THEN Equal ELSE Less)
    ELSE IF rs = <<>> THEN Greater
    ELSE ThenWith(CmpIdent(ls[1], rs[1], isPre),
                  CmpIdents(Tail(ls), Tail(rs), isPre))

\* Ord for Prerelease: no prerelease ranks above any prerelease
CmpPre(a, b) ==
    IF a = <<>> THEN (IF b = <<>> THEN Equal ELSE Greater)
    ELSE IF b = <<>> THEN Less
    ELSE CmpIdents(SplitDot(a), SplitDot(b), TRUE)

\* Ord for BuildMetadata
CmpBuild(a, b) == CmpIdents(SplitDot(a), SplitDot(b), FALSE)

\* Ord for semver::Version (derived: the fields in their order)
CmpVersion(a, b) ==
    ThenWith(CmpNum(a.major, b.major),
    ThenWith(CmpNum(a.minor, b.minor),
    ThenWith(CmpNum(a.patch, b.patch),
    ThenWith(CmpPre(a.pre, b.pre), CmpBuild(a.build, b.build)))))

\* Ord for bool: false < true
CmpBool(a, b) == IF a = b THEN Equal ELSE IF b THEN Less ELSE Greater

----------------------------------------------------------------------------
(* GodotVersion.                                                           *)

\* PadShort without the branch for a second part such as "5-beta1"
PadShortSimpleOnly(cleaned) ==
    LET parts == SplitDot(cleaned)
    IN  IF Len(parts) = 2 /\ AllDigits(parts[2])
        THEN cleaned \o <<".", "0">>
        ELSE cleaned

\* PadShort testing parts.len() >= 2 where the code tests == 2
PadShortAtLeastTwo(cleaned) ==
    LET parts == SplitDot(cleaned)
    IN  IF Len(parts) >= 2
        THEN LET second_part == parts[2]
                 dash_pos == Find(second_part, <<"-">>)
                 num_part == SubSeq(second_part, 1, dash_pos - 1)
                 prerelease_part == SubSeq(second_part, dash_pos, Len(second_part))
             IN  IF AllDigits(second_part) THEN cleaned \o <<".", "0">>
                 ELSE IF IsDigit(second_part[1]) /\ dash_pos /= 0 /\ AllDigits(num_part)
                 THEN parts[1] \o <<".">> \o num_part \o <<".", "0">> \o prerelease_part
                 ELSE cleaned
        ELSE cleaned

\* lines 51-76: a two-part string gets a zero patch component
PadShort(cleaned) ==
    LET parts == SplitDot(cleaned)
    IN  IF Len(parts) = 2
        THEN LET second_part == parts[2]
                 dash_pos == Find(second_part, <<"-">>)
                 num_part == SubSeq(second_part, 1, dash_pos - 1)
                 prerelease_part == SubSeq(second_part, dash_pos, Len(second_part))
             IN  IF AllDigits(second_part) THEN cleaned \o <<".", "0">>
                 ELSE IF IsDigit(second_part[1]) /\ dash_pos /= 0 /\ AllDigits(num_part)
                 THEN parts[1] \o <<".">> \o num_part \o <<".", "0">> \o prerelease_part
                 ELSE cleaned
        ELSE cleaned

\* TagCheck returning the tag and the counter without the dot between them
TagCheckNoDot(cleaned, tag) ==
    LET intro == <<"-">> \o tag
    IN  IF Contains(cleaned, intro) /\ ~Contains(cleaned, intro \o <<".">>)
        THEN LET base == SplitOnce(cleaned, intro)[1]
                 part == SplitOnce(cleaned, intro)[2]
                 num == ParseU32(part)
             IN  IF num /= None THEN base \o intro \o num
                 ELSE IF part = <<>> THEN base \o intro
                 ELSE None
        ELSE None

\* TagCheck reading the counter from the digits that follow the tag and
\* ignoring what comes after them
TagCheckLenient(cleaned, tag) ==
    LET intro == <<"-">> \o tag
    IN  IF Contains(cleaned, intro) /\ ~Contains(cleaned, intro \o <<".">>)
        THEN LET base == SplitOnce(cleaned, intro)[1]
                 part == SplitOnce(cleaned, intro)[2]
                 num == ParseU32(SubSeq(part, 1, PrefixLen(part, FALSE)))
             IN  IF num /= None THEN base \o intro \o <<".">> \o num
                 ELSE IF part = <<>> THEN base \o intro
                 ELSE None
        ELSE None

\* one of the three checks of lines 78-110, for the tag given: the string it
\* returns, or None when control falls through to the next check
TagCheck(cleaned, tag) ==
    LET intro == <<"-">> \o tag
    IN  IF Contains(cleaned, intro) /\ ~Contains(cleaned, intro \o <<".">>)
        THEN LET base == SplitOnce(cleaned, intro)[1]
                 part == SplitOnce(cleaned, intro)[2]
                 num == ParseU32(part)
             IN  IF num /= None THEN base \o intro \o <<".">> \o num
                 ELSE IF part = <<>> THEN base \o intro
                 ELSE None
        ELSE None

\* lines 78-112 with the checks applied in the order given
RECURSIVE TagChecks(_, _)
TagChecks(cleaned, order) ==
    IF order = <<>> THEN cleaned
    ELSE LET r == TagCheck(cleaned, Head(order))
         IN  IF r /= None THEN r ELSE TagChecks(cleaned, Tail(order))

\* normalize_version_string with the three checks in the order given
NormalizeInOrder(version_str, order) ==
    TagChecks(PadShort(StripSuffixOr(Trim(version_str), DashStable)), order)

normalize_version_string(version_str) == NormalizeInOrder(version_str, CodeOrder)

\* GodotVersion::new
New(version_str, dotnet) ==
    LET version == VersionParse(normalize_version_string(version_str))
    IN  IF version.ok THEN Ok([version |-> version.val, is_dotnet |-> dotnet])
        ELSE Err

\* get_platform_suffix without the arm ("windows", _)
get_platform_suffix_no_windows_fallback(host_os, host_arch) ==
    CASE host_os = "windows" /\ host_arch = "x86_64" -> <<"w", "i", "n", "6", "4", ".",
          "e", "x", "e">>
      [] host_os = "windows" /\ host_arch = "x86" -> <<"w", "i", "n", "3", "2", ".",
            "e", "x", "e">>
      [] host_os = "macos" -> <<"m", "a", "c", "o", "s", ".", "u", "n", "i", "v", "e",
            "r", "s", "a", "l">>
      [] host_os = "linux" /\ host_arch = "x86_64" -> <<"l", "i", "n", "u", "x", ".",
            "x", "8", "6", "_", "6", "4">>
      [] host_os = "linux" /\ host_arch = "x86" -> <<"l", "i", "n", "u", "x", ".", "x",
            "8", "6", "_", "3", "2">>
      [] host_os = "linux" /\ host_arch = "arm" -> <<"l", "i", "n", "u", "x", ".", "a",
            "r", "m", "3", "2">>
      [] host_os = "linux" /\ host_arch = "aarch64" -> <<"l", "i", "n", "u", "x", ".",
            "a", "r", "m", "6", "4">>
      [] OTHER -> <<"l", "i", "n", "u", "x", ".", "x", "8", "6", "_", "6", "4">>

\* get_platform_suffix, the host's OS and ARCH passed in
get_platform_suffix(host_os, host_arch) ==
    CASE host_os = "windows" /\ host_arch = "x86_64" -> <<"w", "i", "n", "6", "4", ".",
          "e", "x", "e">>
      [] host_os = "windows" /\ host_arch = "x86" -> <<"w", "i", "n", "3", "2", ".",
            "e", "x", "e">>
      [] host_os = "macos" -> <<"m", "a", "c", "o", "s", ".", "u", "n", "i", "v", "e",
            "r", "s", "a", "l">>
      [] host_os = "linux" /\ host_arch = "x86_64" -> <<"l", "i", "n", "u", "x", ".",
            "x", "8", "6", "_", "6", "4">>
      [] host_os = "linux" /\ host_arch = "x86" -> <<"l", "i", "n", "u", "x", ".", "x",
            "8", "6", "_", "3", "2">>
      [] host_os = "linux" /\ host_arch = "arm" -> <<"l", "i", "n", "u", "x", ".", "a",
            "r", "m", "3", "2">>
      [] host_os = "linux" /\ host_arch = "aarch64" -> <<"l", "i", "n", "u", "x", ".",
            "a", "r", "m", "6", "4">>
      [] host_os = "windows" -> <<"w", "i", "n", "6", "4", ".", "e", "x", "e">>
      [] host_os = "linux" -> <<"l", "i", "n", "u", "x", ".", "x", "8", "6", "_", "6",
            "4">>
      [] OTHER -> <<"l", "i", "n", "u", "x", ".", "x", "8", "6", "_", "6", "4">>

\* godot_version_string replacing "-beta." by "beta", the dash lost
godot_version_string_dash_lost(self) ==
    Replace(Replace(Replace(VersionToString(self.version),
                            <<"-", "b", "e", "t", "a", ".">>, <<"b", "e", "t", "a">>),
                    <<"-", "r", "c", ".">>, <<"r", "c">>),
            <<"-", "a", "l", "p", "h", "a", ".">>, <<"a", "l", "p", "h", "a">>)

\* GodotVersion::godot_version_string
godot_version_string(self) ==
    Replace(Replace(Replace(VersionToString(self.version),
                            <<"-", "b", "e", "t", "a", ".">>, <<"-", "b", "e", "t",
                                  "a">>),
                    <<"-", "r", "c", ".">>, <<"-", "r", "c">>),
            <<"-", "a", "l", "p", "h", "a", ".">>, <<"-", "a", "l", "p", "h", "a">>)

\* the version_part without "-stable" for a stable value
VersionPartNoStable(self) == godot_version_string(self)

\* the version_part of get_executable_path and archive_name
\* (lines 140-144, 156-160 and 193-197)
VersionPart(self) ==
    IF self.version.pre = <<>>
    THEN VersionToString(self.version) \o DashStable
    ELSE godot_version_string(self)

\* GodotVersion::get_executable_path
get_executable_path(self, host_os, host_arch) ==
    CASE host_os = "macos" ->
           IF self.is_dotnet
           THEN <<"G", "o", "d", "o", "t", "_", "m", "o", "n", "o", ".", "a", "p", "p",
                 "/", "C", "o", "n", "t", "e", "n", "t", "s", "/", "M", "a", "c", "O",
                 "S", "/", "G", "o", "d", "o", "t">>
           ELSE <<"G", "o", "d", "o", "t", ".", "a", "p", "p", "/", "C", "o", "n", "t",
                 "e", "n", "t", "s", "/", "M", "a", "c", "O", "S", "/", "G", "o", "d",
                 "o", "t">>
      [] host_os = "windows" ->
           IF self.is_dotnet
           THEN <<"G", "o", "d", "o", "t", "_", "v">> \o VersionPart(self) \o <<"_",
                 "m", "o", "n", "o", "_">> \o <<"w", "i", "n", "6", "4">>
                \o <<"/", "G", "o", "d", "o", "t", "_", "v">> \o VersionPart(self)
                      \o <<"_", "m", "o", "n", "o", "_">> \o <<"w", "i", "n", "6", "4">>
                \o <<".", "e", "x", "e">>
           ELSE <<"G", "o", "d", "o", "t", "_", "v">> \o VersionPart(self)
                 \o <<"_">> \o <<"w", "i", "n", "6", "4">> \o <<".", "e", "x", "e">>
      [] host_os = "linux" ->
           LET platform_suffix == get_platform_suffix(host_os, host_arch)
               folder_name == <<"G", "o", "d", "o", "t", "_", "v">>
                     \o VersionPart(self) \o <<"_", "m", "o", "n", "o", "_">>
                              \o platform_suffix
               exe_name == <<"G", "o", "d", "o", "t", "_", "v">>
                     \o VersionPart(self) \o <<"_", "m", "o", "n", "o", "_">>
                           \o platform_suffix
           IN  IF self.is_dotnet
               THEN folder_name \o <<"/">> \o exe_name
               ELSE <<"G", "o", "d", "o", "t", "_", "v">> \o VersionPart(self)
                     \o <<"_">> \o platform_suffix
      [] OTHER -> <<"G", "o", "d", "o", "t">>

\* GodotVersion::installation_name
installation_name(self) ==
    IF self.is_dotnet
    THEN <<"g", "o", "d", "o", "t", "-">> \o godot_version_string(self) \o <<"-", "d",
          "o", "t", "n", "e", "t">>
    ELSE <<"g", "o", "d", "o", "t", "-">> \o godot_version_string(self)

\* GodotVersion::archive_name
archive_name(self, host_os, host_arch) ==
    LET platform_suffix == get_platform_suffix(host_os, host_arch)
    IN  IF self.is_dotnet
        THEN <<"G", "o", "d", "o", "t", "_", "v">> \o VersionPart(self) \o <<"_", "m",
              "o", "n", "o", "_">> \o platform_suffix
             \o <<".", "z", "i", "p">>
        ELSE <<"G", "o", "d", "o", "t", "_", "v">> \o VersionPart(self) \o <<"_">>
              \o platform_suffix
             \o <<".", "z", "i", "p">>

\* GodotVersion::is_prerelease
is_prerelease(self) == self.version.pre /= <<>>

\* the derived PartialEq: all fields equal
Eq(a, b) == a.version = b.version /\ a.is_dotnet = b.is_dotnet

\* an ordering by the version alone
CmpVersionOnly(a, b) == CmpVersion(a.version, b.version)

\* the derived Ord: the version, then the flag
Cmp(a, b) ==
    ThenWith(CmpVersion(a.version, b.version), CmpBool(a.is_dotnet, b.is_dotnet))

----------------------------------------------------------------------------
(* The state: the host platform, the calls of GodotVersion::new a caller   *)
(* makes one after the other, the values they returned, and the result of  *)
(* the last method the caller invoked on those values.                     *)

VARIABLES
    os,          \* std::env::consts::OS
    arch,        \* std::env::consts::ARCH
    args,        \* the (version_str, is_dotnet) of each call of new, in order
    normalized,  \* new's local `normalized`, one per call made
    vals,        \* the Result of each call made
    ret          \* the last method invoked and what it returned per value

vars == <<os, arch, args, normalized, vals, ret>>

----------------------------------------------------------------------------
(* Bounds and the inputs drawn within them.                                *)

\* numeric components range over 0..MaxNum
MaxNum == 1
\* a free-form input is a numeric start followed by up to MaxSuffix tokens
MaxSuffix == 3

RECURSIVE ToDigits(_)
ToDigits(n) ==
    IF n < Len(DigitChars) THEN <<DigitChars[n + 1]>>
    ELSE ToDigits(n \div Len(DigitChars)) \o <<DigitChars[(n % Len(DigitChars)) + 1]>>

Nums == {ToDigits(n) : n \in 0..MaxNum}
Tags == {TagBeta, TagRc, TagAlpha}

\* u32::MAX + 1
U32Overflow == <<"4", "2", "9", "4", "9", "6", "7", "2", "9", "6">>
Counters == Nums \cup {U32MaxDigits, U32Overflow}

Core1 == Nums
Core2 == {x \o <<".">> \o y : x \in Nums, y \in Nums}
Core3 == {xy \o <<".">> \o z : xy \in Core2, z \in Nums}

DashForm(core, t, n) == core \o <<"-">> \o t \o n
DottedForm(core, t, n) == core \o <<"-">> \o t \o <<".">> \o n

\* the dash-form prerelease suffixes: -tag and -tagN
DashSuffixes ==
    {<<"-">> \o t : t \in Tags} \cup {<<"-">> \o t \o n : t \in Tags, n \in Counters}
\* the dotted ones: -tag.N
DottedSuffixes == {<<"-">> \o t \o <<".">> \o n : t \in Tags, n \in Counters}

UpstreamSuffixes == {<<>>, DashStable} \cup DashSuffixes \cup DottedSuffixes

\* version strings in the upstream style, with one to three components
UpstreamInputs ==
    {c \o s : c \in Core1 \cup Core2 \cup Core3, s \in UpstreamSuffixes}

\* the suffixes tried on every host platform
HostSuffixes ==
    {<<>>, <<"-", "b", "e", "t", "a">>, <<"-", "r", "c", ".", "1">>, <<"-", "a", "l",
          "p", "h", "a", "1">>, <<"+", "x", "-", "b", "e", "t", "a", ".", "1">>, <<"-",
          "b", "e", "t", "a", "+", "1", "x">>}
HostInputs == {c \o s : c \in Core3, s \in HostSuffixes}

\* version strings a user may type, tried in pairs
TypedInputs ==
    {<<"1", ".", "0", ".", "1">> \o s :
        s \in {<<>>, <<"-", "d", "o", "t", "n", "e", "t">>, <<"-", "r", "c", "1">>,
              <<"-", "r", "c", "1", ".", "1">>, <<"-", "r", "c", ".", "1", ".", "1">>,
              <<"+", "1">>, <<"+", "0", "1">>}}

\* free-form inputs: a numeric start and up to MaxSuffix tokens
Tokens ==
    {<<"-", "b", "e", "t", "a">>, <<"-", "r", "c">>, <<"-", "a", "l", "p", "h", "a">>,
          DashStable, <<".">>, <<"1">>, <<"0">>, <<"+">>, <<" ">>, <<"x">>}
Starts == {<<"4">>, <<"4", ".", "3">>, <<"4", ".", "2", ".", "1">>}

RECURSIVE TokenStrings(_)
TokenStrings(n) ==
    IF n = 0 THEN {<<>>}
    ELSE LET shorter == TokenStrings(n - 1)
         IN  shorter \cup {s \o t : s \in shorter, t \in Tokens}

FreeInputs == {c \o s : c \in Starts, s \in TokenStrings(MaxSuffix)}

Call(s, d) == [version_str |-> s, is_dotnet |-> d]

\* the same string built without and with the .NET flag
Twins(inputs) == {<<Call(s, FALSE), Call(s, TRUE)>> : s \in inputs}
\* the dash form and the dotted form of the same prerelease
DashDotPairs ==
    {<<Call(DashForm(c, t, n), d), Call(DottedForm(c, t, n), d)>> :
        c \in Core3, t \in Tags, n \in Counters, d \in BOOLEAN}
AllPairs(inputs) ==
    {<<Call(s, d), Call(t, e)>> :
        s \in inputs, t \in inputs, d \in BOOLEAN, e \in BOOLEAN}

HostOS == {"windows", "macos", "linux", "freebsd", "android"}
HostArch == {"x86_64", "x86", "arm", "aarch64", "riscv64"}

NoCall == [fn |-> "none", val |-> <<>>]

----------------------------------------------------------------------------
(* Initial states.                                                         *)

Fresh ==
    /\ normalized = <<>>
    /\ vals = <<>>
    /\ ret = NoCall

\* any host, versions in the upstream style
InitHost ==
    /\ os \in HostOS
    /\ arch \in HostArch
    /\ args \in Twins(HostInputs)
    /\ Fresh

\* one host, many versions
InitVersions ==
    /\ os = "linux"
    /\ arch = "x86_64"
    /\ args \in Twins(UpstreamInputs) \cup DashDotPairs \cup AllPairs(TypedInputs)
    /\ Fresh

Init == InitHost \/ InitVersions

\* one host, free-form input
InitNormalize ==
    /\ os = "linux"
    /\ arch = "x86_64"
    /\ args \in {<<Call(s, FALSE)>> : s \in FreeInputs}
    /\ Fresh

----------------------------------------------------------------------------
(* Actions.                                                                *)

\* the caller's next call of GodotVersion::new
Construct ==
    /\ Len(vals) < Len(args)
    /\ LET a == args[Len(vals) + 1]
       IN  /\ normalized' = Append(normalized, normalize_version_string(a.version_str))
           /\ vals' = Append(vals, New(a.version_str, a.is_dotnet))
    /\ UNCHANGED <<os, arch, args, ret>>

Ready == Len(vals) = Len(args)

\* The caller invokes one method on the values it built; ret holds, for
\* each value, Ok of what the method returned, and Err where new had failed
\* and there is no value.  The methods take &self and are pure: what one
\* returns does not depend on earlier calls.
Return(fn, val) ==
    /\ Ready
    /\ ret = NoCall
    /\ ret' = [fn |-> fn, val |-> val]
    /\ UNCHANGED <<os, arch, args, normalized, vals>>

CallGetPlatformSuffix ==
    Return("get_platform_suffix", get_platform_suffix(os, arch))

CallGodotVersionString ==
    Return("godot_version_string",
           [i \in DOMAIN vals |->
               IF vals[i].ok THEN Ok(godot_version_string(vals[i].val)) ELSE Err])

CallGetExecutablePath ==
    Return("get_executable_path",
           [i \in DOMAIN vals |->
               IF vals[i].ok THEN Ok(get_executable_path(vals[i].val, os, arch))
               ELSE Err])

CallInstallationName ==
    Return("installation_name",
           [i \in DOMAIN vals |->
               IF vals[i].ok THEN Ok(installation_name(vals[i].val)) ELSE Err])

CallArchiveName ==
    Return("archive_name",
           [i \in DOMAIN vals |->
               IF vals[i].ok THEN Ok(archive_name(vals[i].val, os, arch))
               ELSE Err])

CallIsPrerelease ==
    Return("is_prerelease",
           [i \in DOMAIN vals |->
               IF vals[i].ok THEN Ok(is_prerelease(vals[i].val)) ELSE Err])

\* the caller compares the first two values: ==, and Ord::cmp
CallCmp ==
    /\ Len(args) >= 2
    /\ Ready
    /\ vals[1].ok /\ vals[2].ok
    /\ Return("cmp", [eq |-> Eq(vals[1].val, vals[2].val),
                      cmp |-> Cmp(vals[1].val, vals[2].val)])

\* normalize_version_string applied to its own output
CallNormalizeAgain ==
    Return("normalize_version_string",
           [i \in DOMAIN normalized |-> normalize_version_string(normalized[i])])

Orders ==
    {o \in [DOMAIN CodeOrder -> Tags] : \A i,
          j \in DOMAIN CodeOrder : i /= j => o[i] /= o[j]}

\* the normalizer with its three checks in each possible order
CallNormalizeInOrders ==
    Return("normalize_in_orders",
           [i \in DOMAIN args |->
               [o \in Orders |-> NormalizeInOrder(args[i].version_str, o)]])

\* new on the display string of each value, with the value's flag
CallNewFromDisplay ==
    Return("new_from_display",
           [i \in DOMAIN vals |->
               IF vals[i].ok
               THEN Ok(New(godot_version_string(vals[i].val), vals[i].val.is_dotnet))
               ELSE Err])

Next ==
    \/ Construct
    \/ CallGetPlatformSuffix
    \/ CallGodotVersionString
    \/ CallGetExecutablePath
    \/ CallInstallationName
    \/ CallArchiveName
    \/ CallIsPrerelease
    \/ CallCmp
    \/ CallNormalizeAgain
    \/ CallNormalizeInOrders
    \/ CallNewFromDisplay

Spec == Init /\ [][Next]_vars

NextNormalize ==
    \/ Construct
    \/ CallNormalizeAgain
    \/ CallNormalizeInOrders
    \/ CallNewFromDisplay

SpecNormalize == InitNormalize /\ [][NextNormalize]_vars

----------------------------------------------------------------------------
(* Properties.                                                             *)

\* the calls were made with the same string, once without and once with
\* the .NET flag, and both succeeded
TwinsBuilt ==
    /\ Len(args) = 2
    /\ Ready
    /\ args[1].version_str = args[2].version_str
    /\ args[1].is_dotnet /= args[2].is_dotnet
    /\ vals[1].ok /\ vals[2].ok

SevenTokens ==
    {<<"w", "i", "n", "6", "4", ".", "e", "x", "e">>, <<"w", "i", "n", "3", "2", ".",
          "e", "x", "e">>, <<"m", "a", "c", "o", "s", ".", "u", "n", "i", "v", "e",
          "r", "s", "a", "l">>, <<"l", "i", "n", "u", "x", ".", "x", "8", "6", "_",
          "6", "4">>,
     <<"l", "i", "n", "u", "x", ".", "x", "8", "6", "_", "3", "2">>, <<"l", "i", "n",
           "u", "x", ".", "a", "r", "m", "3", "2">>, <<"l", "i", "n", "u", "x", ".",
           "a", "r", "m", "6", "4">>}

\* C7: get_platform_suffix returns one of the seven tokens, never the empty
\* string, for every (os, arch); an unrecognized architecture gives win64.exe
\* on Windows and linux.x86_64 on Linux, macOS gives macos.universal for
\* every architecture, every other operating system gives linux.x86_64.
C7_PlatformSuffixTotal ==
    ret.fn = "get_platform_suffix" =>
        /\ ret.val \in SevenTokens
        /\ ret.val /= <<>>
        /\ (os = "windows" /\ arch \notin {"x86_64", "x86"}
               => ret.val = <<"w", "i", "n", "6", "4", ".", "e", "x", "e">>)
        /\ (os = "linux" /\ arch \notin {"x86_64", "x86", "arm", "aarch64"}
               => ret.val = <<"l", "i", "n", "u", "x", ".", "x", "8", "6", "_", "6",
                     "4">>)
        /\ (os = "macos" => ret.val = <<"m", "a", "c", "o", "s", ".", "u", "n", "i",
              "v", "e", "r", "s", "a", "l">>)
        /\ (os \notin {"windows", "macos", "linux"}
               => ret.val = <<"l", "i", "n", "u", "x", ".", "x", "8", "6", "_", "6",
                     "4">>)

C7_Witness ==
    /\ ret.fn = "get_platform_suffix"
    /\ os = "windows"
    /\ arch = "riscv64"
    /\ ret.val = <<"w", "i", "n", "6", "4", ".", "e", "x", "e">>

\* C1 (as claimed): on every host, the executable path of the value built
\* without the .NET flag differs from that of the value built from the same
\* string with it.
C1_ExecutablePathsDiffer ==
    (ret.fn = "get_executable_path" /\ TwinsBuilt) => ret.val[1] /= ret.val[2]

\* C4 (as claimed): two values built from the same string that differ only
\* in the flag are unequal under == and compare Equal.
C4_TwinsCompareEqual ==
    (ret.fn = "cmp" /\ TwinsBuilt) =>
        /\ ~ret.val.eq
        /\ ret.val.cmp = Equal

\* C4 (amended): two values built from the same string that differ only in
\* the flag are unequal under == and the one without the flag orders
\* strictly before the one with it; whenever the versions of two values are
\* equal, the flags alone decide the comparison.
C4_TwinsOrderedByFlag ==
    ret.fn = "cmp" =>
        /\ TwinsBuilt =>
              /\ ~ret.val.eq
              /\ ret.val.cmp = (IF args[1].is_dotnet THEN Greater ELSE Less)
        /\ vals[1].val.version = vals[2].val.version =>
              /\ ret.val.eq = (vals[1].val.is_dotnet = vals[2].val.is_dotnet)
              /\ ret.val.cmp =
                    (IF vals[1].val.is_dotnet = vals[2].val.is_dotnet THEN Equal
                     ELSE IF vals[1].val.is_dotnet THEN Greater ELSE Less)

C4_Witness ==
    /\ ret.fn = "cmp"
    /\ TwinsBuilt
    /\ ~args[1].is_dotnet
    /\ ret.val.cmp = Less

\* C10 (as claimed): two values that are not equal never have the same
\* installation name.
C10_InstallationNameInjective ==
    (/\ ret.fn = "installation_name"
     /\ Len(vals) = 2
     /\ vals[1].ok /\ vals[2].ok
     /\ vals[1].val /= vals[2].val)
    => ret.val[1] /= ret.val[2]

\* the value the i-th call of new returned has the numeric core x.y.z
HasCore(i, x, y, z) ==
    /\ vals[i].ok
    /\ vals[i].val.version.major = x
    /\ vals[i].val.version.minor = y
    /\ vals[i].val.version.patch = z

\* what the last method returned for the i-th value is r, when the method
\* was fn
Returned(fn, i, r) == ret.fn = fn => ret.val[i] = Ok(r)

\* the prerelease suffixes of the upstream style: dash form and dotted form
PrereleaseSuffixes == DashSuffixes \cup DottedSuffixes

\* C2 (as claimed): an input with one or two numeric components, with or
\* without a prerelease suffix, is accepted and yields the core X.0.0 or
\* X.Y.0, the suffix kept.
C2_ShortInputsPadded ==
    \A i \in DOMAIN vals :
        /\ \A x \in Nums, s \in {<<>>} \cup PrereleaseSuffixes :
              args[i].version_str = x \o s =>
                  /\ HasCore(i, x, <<"0">>, <<"0">>)
                  /\ Returned("is_prerelease", i, s /= <<>>)
        /\ \A x \in Nums, y \in Nums, s \in {<<>>} \cup PrereleaseSuffixes :
              args[i].version_str = x \o <<".">> \o y \o s =>
                  /\ HasCore(i, x, y, <<"0">>)
                  /\ Returned("is_prerelease", i, s /= <<>>)

\* C2 (amended): an input with two numeric components X.Y, alone or followed
\* by a prerelease suffix in the dash form (-tag or -tagN, no dot), is
\* accepted and yields the core X.Y.0; it is a prerelease exactly when there
\* is a suffix, and its display string is X.Y.0 followed by the suffix.
C2_TwoComponentsPadded ==
    \A i \in DOMAIN vals :
        \A x \in Nums, y \in Nums, s \in {<<>>} \cup DashSuffixes :
            args[i].version_str = x \o <<".">> \o y \o s =>
                /\ HasCore(i, x, y, <<"0">>)
                /\ Returned("is_prerelease", i, s /= <<>>)
                /\ Returned("godot_version_string", i,
                            x \o <<".">> \o y \o <<".", "0">> \o s)

C2_Witness ==
    /\ Len(vals) >= 1
    /\ args[1].version_str = <<"1", ".", "0", "-", "b", "e", "t", "a", "1">>
    /\ ret.fn = "godot_version_string"
    /\ ret.val[1] = Ok(<<"1", ".", "0", ".", "0", "-", "b", "e", "t", "a", "1">>)

\* the two calls were the dash form and the dotted form of the prerelease
\* (c, t, n)
DashDotBuilt(c, t, n) ==
    /\ Len(args) = 2
    /\ Ready
    /\ args[1].version_str = DashForm(c, t, n)
    /\ args[2].version_str = DottedForm(c, t, n)
    /\ args[1].is_dotnet = args[2].is_dotnet

\* what the claim says of the two values built from the two forms
DashDotAgree(c, t, n) ==
    /\ vals[1].ok /\ vals[2].ok
    /\ (ret.fn = "cmp" => ret.val.eq)
    /\ Returned("is_prerelease", 1, TRUE)
    /\ Returned("is_prerelease", 2, TRUE)
    /\ Returned("godot_version_string", 1, DashForm(c, t, n))
    /\ Returned("godot_version_string", 2, DashForm(c, t, n))

\* C5 (as claimed): for every core, tag and counter, the dash form and the
\* dotted form are both accepted, give equal values that are prereleases,
\* and display as the dash form.
C5_DashAndDottedAgree ==
    \A c \in Core3, t \in Tags, n \in Counters :
        DashDotBuilt(c, t, n) => DashDotAgree(c, t, n)

\* C5 (amended): the same for every counter that fits 32 bits (at most
\* 4294967295).
C5_DashAndDottedAgreeU32 ==
    \A c \in Core3, t \in Tags, n \in Counters :
        (DashDotBuilt(c, t, n) /\ FitsIn(n, U32MaxDigits))
            => DashDotAgree(c, t, n)

C5_Witness ==
    /\ DashDotBuilt(<<"1", ".", "0", ".", "1">>, TagRc, U32MaxDigits)
    /\ ret.fn = "cmp"
    /\ ret.val.eq

\* the suffix of the archive name after the version part
ArchiveTail(v) ==
    (IF v.is_dotnet THEN <<"_", "m", "o", "n", "o", "_">> ELSE <<"_">>)
    \o get_platform_suffix(os, arch) \o <<".", "z", "i", "p">>

\* what the claim derives from the form of the name
ArchiveFacts(v, name) ==
    /\ EndsWith(name, <<".", "z", "i", "p">>)
    /\ (v.version.pre = <<>> => Contains(name, <<"-", "s", "t", "a", "b", "l", "e",
          "_">>))
    /\ (Contains(name, <<"_", "m", "o", "n", "o", "_">>) <=> v.is_dotnet)

\* C6 (as claimed): the archive name is Godot_v, the display string followed
\* by -stable exactly when there is no prerelease, _ or _mono_, the platform
\* suffix and .zip.
C6_ArchiveNameFromDisplay ==
    ret.fn = "archive_name" =>
        \A i \in DOMAIN vals : vals[i].ok =>
            LET v == vals[i].val
                part == godot_version_string(v)
                        \o (IF v.version.pre = <<>> THEN DashStable ELSE <<>>)
            IN  /\ ret.val[i] = Ok(<<"G", "o", "d", "o", "t", "_", "v">> \o part
                  \o ArchiveTail(v))
                /\ ArchiveFacts(v, ret.val[i].val)

\* C6 (amended): the version part is the display string for a prerelease,
\* and for a stable value the version as the strict parser prints it
\* (build metadata unconverted) followed by -stable; the name ends in .zip,
\* contains -stable_ for a stable value and _mono_ exactly for .NET.
C6_ArchiveNameForm ==
    ret.fn = "archive_name" =>
        \A i \in DOMAIN vals : vals[i].ok =>
            LET v == vals[i].val
                part == IF v.version.pre = <<>>
                        THEN VersionToString(v.version) \o DashStable
                        ELSE godot_version_string(v)
            IN  /\ ret.val[i] = Ok(<<"G", "o", "d", "o", "t", "_", "v">> \o part
                  \o ArchiveTail(v))
                /\ ArchiveFacts(v, ret.val[i].val)

C6_Witness ==
    /\ ret.fn = "archive_name"
    /\ TwinsBuilt
    /\ os = "linux" /\ arch = "aarch64"
    /\ ret.val[1] = Ok(<<"G", "o", "d", "o", "t", "_", "v", "1", ".", "0", ".", "1",
          "-", "s", "t", "a", "b", "l", "e", "_", "l", "i", "n", "u", "x", ".", "a",
          "r", "m", "6", "4", ".", "z", "i", "p">>)
    /\ ret.val[2] = Ok(<<"G", "o", "d", "o", "t", "_", "v", "1", ".", "0", ".", "1",
          "-", "s", "t", "a", "b", "l", "e", "_", "m", "o", "n", "o", "_", "l", "i",
          "n", "u", "x", ".", "a", "r", "m", "6", "4", ".", "z", "i", "p">>)

\* C9 (as claimed): new on the display string of a value, with the value's
\* flag, returns the value.
C9_DisplayRoundTrip ==
    ret.fn = "new_from_display" =>
        \A i \in DOMAIN vals : vals[i].ok => ret.val[i] = Ok(vals[i])

\* a prerelease section that is absent, a tag, or a tag and one numeric
\* counter that fits 32 bits, and no build metadata
PlainVersion(version) ==
    /\ version.build = <<>>
    /\ \/ version.pre = <<>>
       \/ \E t \in Tags :
             \/ version.pre = t
             \/ /\ Len(version.pre) > Len(t) + 1
                /\ SubSeq(version.pre, 1, Len(t) + 1) = t \o <<".">>
                /\ LET n == SubSeq(version.pre, Len(t) + 2, Len(version.pre))
                   IN  AllDigits(n) /\ FitsIn(n, U32MaxDigits)

\* C9 (amended): the round trip holds for every value without build
\* metadata whose prerelease section is absent, alpha, beta or rc alone, or
\* one of them with a single numeric counter of at most 4294967295.
C9_PlainRoundTrip ==
    ret.fn = "new_from_display" =>
        \A i \in DOMAIN vals :
            (vals[i].ok /\ PlainVersion(vals[i].val.version))
                => ret.val[i] = Ok(vals[i])

C9_Witness ==
    /\ ret.fn = "new_from_display"
    /\ Len(vals) >= 1
    /\ vals[1].ok
    /\ vals[1].val.version.pre = <<"a", "l", "p", "h", "a", ".", "1">>
    /\ ret.val[1] = Ok(vals[1])

\* C3 (as claimed): normalizing the normalizer's output returns it
\* unchanged, for every input.
C3_NormalizeIdempotent ==
    ret.fn = "normalize_version_string" =>
        \A i \in DOMAIN normalized : ret.val[i] = normalized[i]

\* C3 (amended): normalizing the normalizer's output returns it unchanged
\* whenever that output is accepted by the strict parser and does not end
\* in -stable.
C3_NormalizeIdempotentOnAccepted ==
    ret.fn = "normalize_version_string" =>
        \A i \in DOMAIN normalized :
            (vals[i].ok /\ ~EndsWith(normalized[i], DashStable))
                => ret.val[i] = normalized[i]

C3_Witness ==
    /\ ret.fn = "normalize_version_string"
    /\ args[1].version_str = <<"4", ".", "3", "-", "r", "c", "1">>
    /\ normalized[1] = <<"4", ".", "3", ".", "0", "-", "r", "c", ".", "1">>
    /\ ret.val[1] = <<"4", ".", "3", ".", "0", "-", "r", "c", ".", "1">>

\* C8: whatever the order of the three prerelease checks, the normalizer
\* returns what it returns with the order of the code, for every input.
C8_CheckOrderIrrelevant ==
    ret.fn = "normalize_in_orders" =>
        \A i \in DOMAIN normalized : \A o \in Orders :
            ret.val[i][o] = normalized[i]

C8_Witness ==
    /\ ret.fn = "normalize_in_orders"
    /\ args[1].version_str = <<"4", ".", "2", ".", "1", "-", "b", "e", "t", "a", "-",
          "r", "c", "1">>
    /\ \A o \in Orders : ret.val[1][o] = <<"4", ".", "2", ".", "1", "-", "b", "e", "t",
          "a", "-", "r", "c", ".", "1">>

====
